---- MODULE Spec2Model ----
(***************************************************************************)
(* Turkish Market Newsletter (src/app.py): the news pipeline of the        *)
(* Streamlit script.  fetch_news (memoised for 900 s) turns feed entries   *)
(* into records, select_top_news scores and ranks them, sector_impact,     *)
(* sector_heat and why_this_matters annotate them, export_docx and         *)
(* export_pdf write them out, and the script body wires the two buttons.   *)
(*                                                                         *)
(* Text is a sequence of characters.  An ASCII character is the string     *)
(* holding it; any other character is named by its code point ("U0131" is  *)
(* the dotless i, "U2013" the en dash); "LF" is the line feed.             *)
(* Time is in whole seconds.  Scores and prices are IEEE 754 doubles, as   *)
(* in Python, and every operation on them rounds as the double does.       *)
(***************************************************************************)
EXTENDS Integers, Sequences, FiniteSets, TLC

VARIABLES
    now,            \* the wall clock, in seconds: what datetime.now() reads
    news_cache,     \* the memo of fetch_news kept by st.cache_data(ttl=900)
    market_cache,   \* the memo of get_market_data kept by st.cache_data(ttl=900)
    news,           \* the list of records the caller of fetch_news holds
    call,           \* the last function call: its name, inputs and result
    ui,             \* the page as the last script run left it
    files           \* output/newsletter.docx and output/newsletter.pdf on disk

vars == <<now, news_cache, market_cache, news, call, ui, files>>

(***************************************************************************)
(* Bounds of the model.                                                    *)
(***************************************************************************)
MaxLen == 3         \* longest list of records handed to a function
MaxFeed == 1        \* most entries the three feeds hold together at one fetch
MaxTicks == 2       \* the clock advances at most this many steps of TickSeconds

(***************************************************************************)
(* Constants of the program.                                               *)
(***************************************************************************)
SecondsPerHour == 3600      \* hours_old = seconds / 3600
SecondsPerDay == 86400      \* timedelta.seconds lies in 0 .. 86399
WindowHours == 18           \* cutoff = now - timedelta(hours=18)
CacheTtl == 900             \* st.cache_data(ttl=900)
RecencyHours == 3           \* max(0, 3 - hours_old)
HighWeight == 3             \* score += 3
MediumWeight == 1           \* score += 1
TrustedBonus == 2           \* score += 2
DefaultN == 3               \* select_top_news(articles, n=3)

\* the step of the model's clock, two thirds of the ttl: one step stays within
\* the memo's lifetime and two steps leave it
TickSeconds == (2 * CacheTtl) \div 3

RSS_FEEDS == <<"Bigpara", "BloombergHT", "ReutersTR">>
TrustedSources == {"ReutersTR", "BloombergHT"}
OUTPUT_DIR == "output"
\* TODAY_STR, the date at the start of the script run, as "%d %B %Y"
TODAY_STR == <<"3", "0", " ", "O", "c", "t", "o", "b", "e", "r", " ", "2", "0", "2", "6">>

(***************************************************************************)
(* Text: str.lower(), substring search, concatenation.                     *)
(***************************************************************************)
UpperLetters ==
    <<"A", "B", "C", "D", "E", "F", "G", "H", "I", "J", "K", "L", "M", "N", "O", "P", "Q",
      "R", "S", "T", "U", "V", "W", "X", "Y", "Z", "U00C7", "U00D6", "U00DC", "U015E",
      "U011E">>
LowerLetters ==
    <<"a", "b", "c", "d", "e", "f", "g", "h", "i", "j", "k", "l", "m", "n", "o", "p", "q",
      "r", "s", "t", "u", "v", "w", "x", "y", "z", "U00E7", "U00F6", "U00FC", "U015F",
      "U011F">>

\* the characters of the model's texts
Alphabet ==
    {UpperLetters[k] : k \in DOMAIN UpperLetters}
    \cup {LowerLetters[k] : k \in DOMAIN LowerLetters}
    \cup {"0", "1", "2", "3", "4", "5", "6", "7", "8", "9", " ", ".", ",", ":", "%", "/",
          "LF", "U0130", "U0131", "U0307", "U2013"}

\* str.lower() of one character.  The capital dotted I (U0130) becomes two
\* characters, "i" and the combining dot above (U0307); the ASCII capital I
\* becomes the dotted "i", never the dotless one.
LowerChar(c) ==
    IF c = "U0130" THEN <<"i", "U0307">>
    ELSE IF \E k \in DOMAIN UpperLetters : UpperLetters[k] = c
         THEN <<LowerLetters[CHOOSE k \in DOMAIN UpperLetters : UpperLetters[k] = c]>>
         ELSE <<c>>

\* str.lower() of every character the upper-case table or the model's texts hold,
\* worked out once
LowerTable == [c \in Alphabet |-> LowerChar(c)]

RECURSIVE Lower(_)
Lower(s) == IF s = <<>> THEN <<>> ELSE LowerTable[Head(s)] \o Lower(Tail(s))

\* kw in text
Contains(text, kw) ==
    \E k \in 0 .. (Len(text) - Len(kw)) : SubSeq(text, k + 1, k + Len(kw)) = kw

\* any(k in text for k in keys)
AnyIn(keys, text) == \E k \in DOMAIN keys : Contains(text, keys[k])

\* the number of keywords kw of the list with kw.lower() in text
RECURSIVE CountIn(_, _)
CountIn(keys, text) ==
    IF keys = <<>> THEN 0
    ELSE (IF Contains(text, Lower(Head(keys))) THEN 1 ELSE 0) + CountIn(Tail(keys), text)

\* (article["title"] + " " + article["summary"]).lower()
TextOf(article) == Lower(article.title \o <<" ">> \o article.summary)

\* str(i) of an integer i >= 0
Digits == <<"0", "1", "2", "3", "4", "5", "6", "7", "8", "9">>
RECURSIVE IntToText(_)
IntToText(i) ==
    IF i < 10 THEN <<Digits[i + 1]>> ELSE IntToText(i \div 10) \o <<Digits[(i % 10) + 1]>>

Max(a, b) == IF a >= b THEN a ELSE b
Min(a, b) == IF a <= b THEN a ELSE b

\* the sequences over S of length at most k
SeqUpTo(S, k) == UNION {[1 .. m -> S] : m \in 0 .. k}


(***************************************************************************)
(* Natural numbers of any size: the sequence of their digits in base       *)
(* 2^15, lowest digit first, without leading zero digits; zero is <<>>.    *)
(***************************************************************************)
Base == 2 ^ 15

RECURSIVE BigTrim(_)
BigTrim(a) ==
    IF a = <<>> THEN <<>>
    ELSE IF a[Len(a)] = 0 THEN BigTrim(SubSeq(a, 1, Len(a) - 1))
    ELSE a

RECURSIVE BigFromInt(_)
BigFromInt(n) == IF n = 0 THEN <<>> ELSE <<n % Base>> \o BigFromInt(n \div Base)

RECURSIVE BigToInt(_)
BigToInt(a) == IF a = <<>> THEN 0 ELSE Head(a) + Base * BigToInt(Tail(a))

Digit(a, k) == IF k <= Len(a) THEN a[k] ELSE 0

\* -1, 0 or 1 as a is below, equal to or above b
RECURSIVE BigCmpFrom(_, _, _)
BigCmpFrom(a, b, k) ==
    IF k = 0 THEN 0
    ELSE IF a[k] < b[k] THEN -1
    ELSE IF a[k] > b[k] THEN 1
    ELSE BigCmpFrom(a, b, k - 1)

BigCmp(a, b) ==
    IF Len(a) < Len(b) THEN -1
    ELSE IF Len(a) > Len(b) THEN 1
    ELSE BigCmpFrom(a, b, Len(a))

RECURSIVE BigAddFrom(_, _, _, _)
BigAddFrom(a, b, k, carry) ==
    IF k > Len(a) /\ k > Len(b)
    THEN (IF carry = 0 THEN <<>> ELSE <<carry>>)
    ELSE LET sum == Digit(a, k) + Digit(b, k) + carry
         IN  <<sum % Base>> \o BigAddFrom(a, b, k + 1, sum \div Base)

BigAdd(a, b) == BigAddFrom(a, b, 1, 0)

\* a - b, for a >= b
RECURSIVE BigSubFrom(_, _, _, _)
BigSubFrom(a, b, k, borrow) ==
    IF k > Len(a) THEN <<>>
    ELSE LET diff == Digit(a, k) - Digit(b, k) - borrow
         IN  <<diff % Base>> \o BigSubFrom(a, b, k + 1, IF diff < 0 THEN 1 ELSE 0)

BigSub(a, b) == BigTrim(BigSubFrom(a, b, 1, 0))

\* a * c, for 0 <= c <= 2^15
RECURSIVE BigMulFrom(_, _, _, _)
BigMulFrom(a, c, k, carry) ==
    IF k > Len(a)
    THEN (IF carry = 0 THEN <<>> ELSE <<carry>>)
    ELSE LET prod == a[k] * c + carry
         IN  <<prod % Base>> \o BigMulFrom(a, c, k + 1, prod \div Base)

BigMulSmall(a, c) == BigTrim(BigMulFrom(a, c, 1, 0))

\* quotient and remainder of a by d, for 0 < d <= 2^15
RECURSIVE BigDivFrom(_, _, _, _)
BigDivFrom(a, d, k, rem) ==
    IF k = 0 THEN [q |-> <<>>, r |-> rem]
    ELSE LET cur == rem * Base + a[k]
             rest == BigDivFrom(a, d, k - 1, cur % d)
         IN  [q |-> Append(rest.q, cur \div d), r |-> rest.r]

TrimQuotient(res) == [q |-> BigTrim(res.q), r |-> res.r]

BigDivSmall(a, d) == TrimQuotient(BigDivFrom(a, d, Len(a), 0))

\* a * 2^k and the whole part of a / 2^k
BigShiftLeft(a, k) ==
    IF a = <<>> THEN <<>>
    ELSE [j \in 1 .. (k \div 15) |-> 0] \o BigMulSmall(a, 2 ^ (k % 15))

BigShiftRight(a, k) ==
    IF k \div 15 >= Len(a) THEN <<>>
    ELSE BigDivSmall(SubSeq(a, (k \div 15) + 1, Len(a)), 2 ^ (k % 15)).q

\* the number of binary digits of a
RECURSIVE SmallBits(_)
SmallBits(n) == IF n = 0 THEN 0 ELSE 1 + SmallBits(n \div 2)

BigBits(a) == IF a = <<>> THEN 0 ELSE 15 * (Len(a) - 1) + SmallBits(a[Len(a)])

BigOdd(a) == a # <<>> /\ a[1] % 2 = 1

\* a / 2^k rounded to the nearest whole number, ties to even; `more` says that
\* the number a stands for is a little above a
RoundsUp(half, q, more) == half > 0 \/ (half = 0 /\ (more \/ BigOdd(q)))

\* q is the whole part of a / 2^k
BigRoundQuotient(a, q, k, more) ==
    IF RoundsUp(BigCmp(BigSub(a, BigShiftLeft(q, k)), BigShiftLeft(<<1>>, k - 1)), q, more)
    THEN BigAdd(q, <<1>>)
    ELSE q

BigRoundShift(a, k, more) ==
    IF k = 0 THEN a ELSE BigRoundQuotient(a, BigShiftRight(a, k), k, more)

(***************************************************************************)
(* IEEE 754 doubles.  A double is sign * m * 2^e with a mantissa m of      *)
(* exactly 53 binary digits; zero has sign 0, no mantissa and e = 0.       *)
(* Every operation rounds its exact result to the nearest double, ties to  *)
(* even, as Python's float and numpy.float64 do.                           *)
(***************************************************************************)
MantissaBits == 53
FloatZero == [sign |-> 0, m |-> <<>>, e |-> 0]

\* the double nearest to sign * n * 2^e (a little above it when `more`); n has
\* more than 53 binary digits whenever `more`
\* m has 53 binary digits, or 54 when the rounding carried into a new digit
FloatOfRounded(sign, m, e) ==
    IF BigBits(m) > MantissaBits
    THEN [sign |-> sign, m |-> BigShiftRight(m, 1), e |-> e + 1]
    ELSE [sign |-> sign, m |-> m, e |-> e]

\* n has `bits` binary digits
FloatRoundBits(sign, n, e, more, bits) ==
    IF bits <= MantissaBits
    THEN [sign |-> sign, m |-> BigShiftLeft(n, MantissaBits - bits),
          e |-> e - (MantissaBits - bits)]
    ELSE FloatOfRounded(sign, BigRoundShift(n, bits - MantissaBits, more),
                        e + (bits - MantissaBits))

FloatRound(sign, n, e, more) ==
    IF n = <<>> \/ sign = 0 THEN FloatZero
    ELSE FloatRoundBits(sign, n, e, more, BigBits(n))

Sign(n) == IF n > 0 THEN 1 ELSE IF n < 0 THEN -1 ELSE 0

\* float(n) of an integer below 2^31
FloatFromInt(n) == FloatRound(Sign(n), BigFromInt(n * Sign(n)), 0, FALSE)

\* the double nearest to sign * res.q * 2^e, res.q being the whole part of a
\* quotient and res.r what the division left, `none` when it left nothing
FloatRoundQuotient(sign, res, e, none) == FloatRound(sign, res.q, e, res.r # none)

\* a / d of two integers, 0 <= a and 0 < d <= 2^15: 75 binary digits of the
\* quotient, then the rounding
FloatFromRatio(a, d) ==
    FloatRoundQuotient(Sign(a), BigDivSmall(BigShiftLeft(BigFromInt(a), 75), d), -75, 0)

\* -1, 0 or 1 as x is below, equal to or above y
FloatCmpAbs(x, y) ==
    IF x.sign = 0 THEN (IF y.sign = 0 THEN 0 ELSE -1)
    ELSE IF y.sign = 0 THEN 1
    ELSE IF x.e < y.e THEN -1
    ELSE IF x.e > y.e THEN 1
    ELSE BigCmp(x.m, y.m)

FloatCmp(x, y) ==
    IF x.sign # y.sign THEN Sign(x.sign - y.sign)
    ELSE x.sign * FloatCmpAbs(x, y)

FloatNeg(x) == [x EXCEPT !.sign = -x.sign]

\* x + y
\* a and b are the mantissas of x and y brought to the exponent e, c compares them
FloatAddAligned(x, y, a, b, c, e) ==
    FloatRound(IF x.sign = y.sign \/ c > 0 THEN x.sign ELSE y.sign,
               IF x.sign = y.sign THEN BigAdd(a, b)
               ELSE IF c > 0 THEN BigSub(a, b)
               ELSE BigSub(b, a),
               e, FALSE)

FloatAddMantissas(x, y, a, b, e) == FloatAddAligned(x, y, a, b, BigCmp(a, b), e)

FloatAddAt(x, y, e) ==
    FloatAddMantissas(x, y, BigShiftLeft(x.m, x.e - e), BigShiftLeft(y.m, y.e - e), e)

FloatAdd(x, y) ==
    IF x.sign = 0 THEN y
    ELSE IF y.sign = 0 THEN x
    ELSE FloatAddAt(x, y, Min(x.e, y.e))

FloatSub(x, y) == FloatAdd(x, FloatNeg(y))

\* x * c, for an integer 0 < c <= 2^15
FloatMulInt(x, c) == FloatRound(x.sign, BigMulSmall(x.m, c), x.e, FALSE)

\* Long division in base 2^15, for a divisor whose top digit is at least 2^14
\* and a dividend num < div * 2^15.  The two top digits of num over the top
\* digit of div are at most 2 above the digit of the quotient.
RECURSIVE DigitAtMost(_, _, _)
DigitAtMost(num, div, d) ==
    IF BigCmp(BigMulSmall(div, d), num) <= 0 THEN d ELSE DigitAtMost(num, div, d - 1)

QuotDigit(num, div) ==
    DigitAtMost(num, div,
                Min(Base - 1, (Digit(num, Len(div) + 1) * Base + Digit(num, Len(div)))
                                  \div div[Len(div)]))

\* `steps` more digits of rem / div onto the digits quot, for rem < div
RECURSIVE DivDigits(_, _, _, _)
DivDigit(num, div, quot, steps, d) ==
    DivDigits(BigSub(num, BigMulSmall(div, d)), div, <<d>> \o quot, steps - 1)

DivShifted(num, div, quot, steps) == DivDigit(num, div, quot, steps, QuotDigit(num, div))

DivDigits(rem, div, quot, steps) ==
    IF steps = 0 THEN [q |-> BigTrim(quot), r |-> rem]
    ELSE DivShifted(BigShiftLeft(rem, 15), div, quot, steps)

\* x / y, for y # 0: the whole part of the quotient of the mantissas, which is 0
\* or 1, then 4 digits of 15 bits, then the rounding.  The mantissas are
\* shifted by 7 bits, which brings the top digit of the divisor to 2^14.
FloatDivWhole(num, div, whole) ==
    DivDigits(IF whole THEN BigSub(num, div) ELSE num, div,
              IF whole THEN <<1>> ELSE <<0>>, 4)

FloatDivMantissas(num, div) == FloatDivWhole(num, div, BigCmp(num, div) >= 0)

FloatDiv(x, y) ==
    IF x.sign = 0 THEN FloatZero
    ELSE FloatRoundQuotient(x.sign * y.sign,
                            FloatDivMantissas(BigShiftLeft(x.m, 7), BigShiftLeft(y.m, 7)),
                            x.e - y.e - 60, <<>>)

\* numpy.rint(x) as an integer, for a double below 2^31: the nearest whole
\* number, ties to even
FloatRint(x) ==
    IF x.sign = 0 THEN 0
    ELSE IF x.e >= 0 THEN x.sign * BigToInt(BigShiftLeft(x.m, x.e))
    ELSE x.sign * BigToInt(BigRoundShift(x.m, -x.e, FALSE))
(***************************************************************************)
(* Keyword tables.                                                         *)
(***************************************************************************)
KEYWORDS_high ==
    << <<"T", "C", "M", "B">>,
       <<"f", "a", "i", "z">>,
       <<"e", "n", "f", "l", "a", "s", "y", "o", "n">>,
       <<"F", "e", "d">>,
       <<"E", "C", "B">>,
       <<"b", "i", "l", "a", "n", "U00E7", "o">>,
       <<"K", "A", "P">> >>

KEYWORDS_medium ==
    << <<"B", "I", "S", "T">>,
       <<"e", "n", "d", "e", "k", "s">>,
       <<"d", "U00F6", "v", "i", "z">>,
       <<"C", "D", "S">>,
       <<"r", "e", "z", "e", "r", "v">>,
       <<"p", "e", "t", "r", "o", "l">> >>

MonetaryKeys ==
    << <<"f", "a", "i", "z">>,
       <<"t", "c", "m", "b">>,
       <<"m", "e", "r", "k", "e", "z", " ", "b", "a", "n", "k", "a", "s", "U0131">> >>

EarningsKeys ==
    << <<"b", "i", "l", "a", "n", "U00E7", "o">>,
       <<"k", "a", "r">>,
       <<"z", "a", "r", "a", "r">> >>

GlobalKeys ==
    << <<"f", "e", "d">>,
       <<"a", "b", "d">>,
       <<"e", "n", "f", "l", "a", "s", "y", "o", "n">> >>

CommodityKeys ==
    << <<"p", "e", "t", "r", "o", "l">>,
       <<"e", "m", "t", "i", "a">>,
       <<"a", "l", "t", "U0131", "n">> >>

BankingKeys ==
    << <<"f", "a", "i", "z">>,
       <<"t", "c", "m", "b">>,
       <<"b", "a", "n", "k", "a">>,
       <<"k", "r", "e", "d", "i">>,
       <<"m", "e", "v", "d", "u", "a", "t">> >>

IndustrialKeys ==
    << <<"s", "a", "n", "a", "y", "i">>,
       <<"U00FC", "r", "e", "t", "i", "m">>,
       <<"i", "h", "r", "a", "c", "a", "t">>,
       <<"f", "a", "b", "r", "i", "k", "a">> >>

EnergyKeys ==
    << <<"e", "n", "e", "r", "j", "i">>,
       <<"p", "e", "t", "r", "o", "l">>,
       <<"d", "o", "U011F", "a", "l", "g", "a", "z">>,
       <<"e", "l", "e", "k", "t", "r", "i", "k">> >>

pos ==
    << <<"a", "r", "t", "U0131", "U015F">>,
       <<"y", "U00FC", "k", "s", "e", "l", "i", "U015F">>,
       <<"g", "U00FC", "U00E7", "l", "U00FC">>,
       <<"r", "e", "k", "o", "r">>,
       <<"o", "l", "u", "m", "l", "u">> >>

neg ==
    << <<"d", "U00FC", "U015F", "U00FC", "U015F">>,
       <<"g", "e", "r", "i", "l", "e", "m", "e">>,
       <<"z", "a", "y", "U0131", "f">>,
       <<"b", "a", "s", "k", "U0131">>,
       <<"r", "i", "s", "k">> >>

MonetarySentence ==
    <<"P", "a", "r", "a", " ", "p", "o", "l", "i", "t", "i", "k", "a", "s", "U0131", " ",
      "a", "d", "U0131", "m", "l", "a", "r", "U0131", ",", " ", "U00F6", "z", "e", "l",
      "l", "i", "k", "l", "e", " ", "b", "a", "n", "k", "a", "c", "U0131", "l", "U0131",
      "k", " ", "s", "e", "k", "t", "U00F6", "r", "U00FC", " ", "o", "l", "m", "a", "k",
      " ", "U00FC", "z", "e", "r", "e", " ", "t", "U00FC", "m", " ", "p", "i", "y", "a",
      "s", "a", " ", "d", "e", "U011F", "e", "r", "l", "e", "m", "e", "l", "e", "r", "i",
      "n", "i", " ", "e", "t", "k", "i", "l", "e", "r", ".">>

EarningsSentence ==
    <<"F", "i", "n", "a", "n", "s", "a", "l", " ", "s", "o", "n", "u", "U00E7", "l", "a",
      "r", ",", " ", "U015F", "i", "r", "k", "e", "t", "i", "n", " ", "o", "p", "e", "r",
      "a", "s", "y", "o", "n", "e", "l", " ", "g", "U00FC", "c", "U00FC", "n", "U00FC",
      " ", "v", "e", " ", "m", "e", "v", "c", "u", "t", " ", "f", "i", "y", "a", "t",
      "l", "a", "m", "a", "l", "a", "r", "U0131", "n", " ", "s", "U00FC", "r", "d",
      "U00FC", "r", "U00FC", "l", "e", "b", "i", "l", "i", "r", "l", "i", "U011F", "i",
      "n", "i", " ", "g", "U00F6", "s", "t", "e", "r", "i", "r", ".">>

GlobalSentence ==
    <<"K", "U00FC", "r", "e", "s", "e", "l", " ", "m", "a", "k", "r", "o", " ", "g", "e",
      "l", "i", "U015F", "m", "e", "l", "e", "r", ",", " ", "g", "e", "l", "i", "U015F",
      "e", "n", " ", "p", "i", "y", "a", "s", "a", "l", "a", "r", "a", " ", "y", "U00F6",
      "n", "e", "l", "i", "k", " ", "r", "i", "s", "k", " ", "i", "U015F", "t", "a", "h",
      "U0131", "n", "U0131", " ", "v", "e", " ", "s", "e", "r", "m", "a", "y", "e", " ",
      "a", "k", "U0131", "m", "l", "a", "r", "U0131", "n", "U0131", " ", "b", "e", "l",
      "i", "r", "l", "e", "r", ".">>

CommoditySentence ==
    <<"E", "m", "t", "i", "a", " ", "f", "i", "y", "a", "t", "l", "a", "r", "U0131", ",",
      " ", "e", "n", "f", "l", "a", "s", "y", "o", "n", " ", "b", "e", "k", "l", "e",
      "n", "t", "i", "l", "e", "r", "i", " ", "v", "e", " ", "i", "l", "g", "i", "l",
      "i", " ", "s", "e", "k", "t", "U00F6", "r", "l", "e", "r", " ", "U00FC", "z", "e",
      "r", "i", "n", "d", "e", " ", "b", "e", "l", "i", "r", "l", "e", "y", "i", "c",
      "i", " ", "r", "o", "l", " ", "o", "y", "n", "a", "r", ".">>

GenericSentence ==
    <<"B", "u", " ", "g", "e", "l", "i", "U015F", "m", "e", ",", " ", "y", "a", "t",
      "U0131", "r", "U0131", "m", "c", "U0131", " ", "a", "l", "g", "U0131", "s",
      "U0131", " ", "v", "e", " ", "p", "i", "y", "a", "s", "a", " ", "b", "e", "k", "l",
      "e", "n", "t", "i", "l", "e", "r", "i", " ", "a", "U00E7", "U0131", "s", "U0131",
      "n", "d", "a", "n", " ", "U00F6", "n", "e", "m", " ", "t", "a", "U015F", "U0131",
      "y", "o", "r", ".">>

HeadingPrefix ==
    <<"G", "U00FC", "n", "l", "U00FC", "k", " ", "P", "i", "y", "a", "s", "a", " ", "B",
      "U00FC", "l", "t", "e", "n", "i", " ", "U2013", " ">>

WhyPrefix ==
    <<"W", "h", "y", " ", "t", "h", "i", "s", " ", "m", "a", "t", "t", "e", "r", "s",
      ":", " ">>

MarketHeading ==
    <<"P", "i", "y", "a", "s", "a", " ", "U00D6", "z", "e", "t", "i">>

TitleTCMB ==
    <<"T", "C", "M", "B", " ", "f", "a", "i", "z", " ", "k", "a", "r", "a", "r", "U0131">>

TitlePetrol ==
    <<"P", "e", "t", "r", "o", "l", " ", "f", "i", "y", "a", "t", "l", "a", "r", "U0131",
      "n", "d", "a", " ", "r", "e", "k", "o", "r">>

TitleSanayi ==
    <<"S", "a", "n", "a", "y", "i", " ", "U00FC", "r", "e", "t", "i", "m", "i">>

TitleBIST ==
    <<"B", "I", "S", "T", " ", "e", "n", "d", "e", "k", "s">>

TitleUpper ==
    <<"F", "A", "U0130", "Z", " ", "V", "E", " ", "A", "L", "T", "I", "N">>

TitleFed ==
    <<"F", "e", "d", " ", "k", "a", "r", "a", "r", "U0131">>

TitleBorsa ==
    <<"B", "o", "r", "s", "a", " ", "g", "U00FC", "n", "U00FC">>

TitleEnerji ==
    <<"E", "n", "e", "r", "j", "i", " ", "v", "e", " ", "b", "a", "n", "k", "a">>

SummaryEmpty ==
    <<>>

SummaryIhracat ==
    <<"i", "h", "r", "a", "c", "a", "t", "t", "a", " ", "d", "U00FC", "U015F", "U00FC",
      "U015F", " ", "v", "e", " ", "r", "i", "s", "k">>

SummaryFaiz ==
    <<"f", "a", "i", "z", " ", "a", "r", "t", "U0131", "U015F", " ", "b", "a", "s", "k",
      "U0131">>

SummaryGuclu ==
    <<"g", "U00FC", "U00E7", "l", "U00FC">>

SummaryKredi ==
    <<"b", "a", "n", "k", "a", " ", "k", "r", "e", "d", "i">>

SummaryHead ==
    <<"B", "I", "S", "T", " ", "1", "0", "0", " ", "g", "U00FC", "n", "U00FC", " ", "%">>

DirectionUp ==
    <<"y", "U00FC", "k", "s", "e", "l", "i", "U015F", "l", "e">>

DirectionDown ==
    <<"d", "U00FC", "U015F", "U00FC", "U015F", "l", "e">>

SummaryMiddle ==
    <<" ", "s", "e", "v", "i", "y", "e", "s", "i", "n", "d", "e", " ", "t", "a", "m",
      "a", "m", "l", "a", "d", "U0131", ".", " ", "U", "S", "D", "/", "T", "R", "Y", " ">>

SummaryTail ==
    <<" ", "s", "e", "v", "i", "y", "e", "s", "i", "n", "d", "e", " ", "i", "z", "l",
      "e", "n", "i", "y", "o", "r", ".">>
(***************************************************************************)
(* score_news.  The score is a double: int points plus a float bonus.      *)
(***************************************************************************)
\* a record that has no "score" key yet: no double has this shape
NoScore == [sign |-> 0, m |-> <<>>, e |-> 1]

\* (datetime.now() - article["published"]).seconds: the seconds field of the
\* normalised timedelta (days, seconds), which is the difference modulo one day.
TimedeltaSeconds(t, published) == (t - published) % SecondsPerDay

\* hours_old = seconds / 3600
HoursOld(t, published) == FloatFromRatio(TimedeltaSeconds(t, published), SecondsPerHour)

\* max(0, x): x when it is above 0, the int 0 otherwise
MaxOfZero(x) == IF FloatCmp(x, FloatZero) > 0 THEN x ELSE FloatZero

\* max(0, 3 - hours_old)
RecencyBonus(t, published) ==
    MaxOfZero(FloatSub(FloatFromInt(RecencyHours), HoursOld(t, published)))

\* a faulty variant: the high weight is added once when any high-weight keyword
\* is present, not once per keyword
KeywordScoreAnyHigh(article) ==
    LET text == TextOf(article)
    IN  (IF CountIn(KEYWORDS_high, text) > 0 THEN HighWeight ELSE 0)
        + MediumWeight * CountIn(KEYWORDS_medium, text)
        + (IF article.source \in TrustedSources THEN TrustedBonus ELSE 0)

\* the points of the high-weight and medium-weight keywords and of the source
KeywordScore(article) ==
    LET text == TextOf(article)
    IN  HighWeight * CountIn(KEYWORDS_high, text)
        + MediumWeight * CountIn(KEYWORDS_medium, text)
        + (IF article.source \in TrustedSources THEN TrustedBonus ELSE 0)

\* score_news(article) when datetime.now() reads t
score_news(article, t) ==
    FloatAdd(FloatFromInt(KeywordScore(article)), RecencyBonus(t, article.published))

(***************************************************************************)
(* select_top_news: score every record, sort in place, slice.              *)
(***************************************************************************)
\* for a in articles: a["score"] = score_news(a); reads[k] is what
\* datetime.now() reads when record k is scored
ScoreAll(articles, reads) ==
    [k \in DOMAIN articles |->
        [articles[k] EXCEPT !.score = score_news(articles[k], reads[k])]]

\* a faulty variant: a goes before the records of equal score, as a sort that is
\* not stable under reverse=True would place it
InsertDescTiesFirst(sorted, a) ==
    LET before == {k \in DOMAIN sorted : FloatCmp(sorted[k].score, a.score) > 0}
        at == IF before = {} THEN 0 ELSE CHOOSE k \in before : \A m \in before : m <= k
    IN  SubSeq(sorted, 1, at) \o <<a>> \o SubSeq(sorted, at + 1, Len(sorted))

\* the place of a in a list sorted by score, highest first: after every record
\* whose score is at least a's, so that equal scores keep their order
InsertDesc(sorted, a) ==
    LET before == {k \in DOMAIN sorted : FloatCmp(sorted[k].score, a.score) >= 0}
        at == IF before = {} THEN 0 ELSE CHOOSE k \in before : \A m \in before : m <= k
    IN  SubSeq(sorted, 1, at) \o <<a>> \o SubSeq(sorted, at + 1, Len(sorted))

\* articles.sort(key=lambda x: x["score"], reverse=True): a stable sort
RECURSIVE SortDesc(_)
SortDesc(articles) ==
    IF articles = <<>> THEN <<>>
    ELSE InsertDesc(SortDesc(SubSeq(articles, 1, Len(articles) - 1)),
                    articles[Len(articles)])

\* articles[:n], for n >= 0
Slice(articles, n) == SubSeq(articles, 1, Min(n, Len(articles)))

\* the list as select_top_news leaves it, and the list it returns
Sliced(sorted, n) == [articles |-> sorted, result |-> Slice(sorted, n)]

select_top_news(articles, n, reads) == Sliced(SortDesc(ScoreAll(articles, reads)), n)

(***************************************************************************)
(* why_this_matters, sector_impact, sector_heat.                           *)
(***************************************************************************)
\* a faulty variant: the keywords are looked up in title and summary
why_title_and_summary(n) ==
    LET title == TextOf(n)
    IN  IF AnyIn(MonetaryKeys, title) THEN MonetarySentence
        ELSE IF AnyIn(EarningsKeys, title) THEN EarningsSentence
        ELSE IF AnyIn(GlobalKeys, title) THEN GlobalSentence
        ELSE IF AnyIn(CommodityKeys, title) THEN CommoditySentence
        ELSE GenericSentence

why_this_matters(n) ==
    LET title == Lower(n.title)
    IN  IF AnyIn(MonetaryKeys, title) THEN MonetarySentence
        ELSE IF AnyIn(EarningsKeys, title) THEN EarningsSentence
        ELSE IF AnyIn(GlobalKeys, title) THEN GlobalSentence
        ELSE IF AnyIn(CommodityKeys, title) THEN CommoditySentence
        ELSE GenericSentence

\* a faulty variant: the keywords are looked up in the title alone
sector_impact_title_only(n) ==
    LET text == Lower(n.title)
        sectors ==
            (IF AnyIn(BankingKeys, text) THEN <<"Banking">> ELSE <<>>)
            \o (IF AnyIn(IndustrialKeys, text) THEN <<"Industrial">> ELSE <<>>)
            \o (IF AnyIn(EnergyKeys, text) THEN <<"Energy">> ELSE <<>>)
    IN  IF sectors = <<>> THEN <<"Broad Market">> ELSE sectors

sector_impact(n) ==
    LET text == TextOf(n)
        sectors ==
            (IF AnyIn(BankingKeys, text) THEN <<"Banking">> ELSE <<>>)
            \o (IF AnyIn(IndustrialKeys, text) THEN <<"Industrial">> ELSE <<>>)
            \o (IF AnyIn(EnergyKeys, text) THEN <<"Energy">> ELSE <<>>)
    IN  IF sectors = <<>> THEN <<"Broad Market">> ELSE sectors

\* a faulty variant: an either/or branch, the positive keywords winning
SentimentEitherOr(n) ==
    LET text == TextOf(n)
    IN  IF AnyIn(pos, text) THEN 1 ELSE IF AnyIn(neg, text) THEN -1 ELSE 0

\* (1 if any(p in text for p in pos) else 0) - (1 if any(m in text for m in neg) else 0)
Sentiment(n) ==
    LET text == TextOf(n)
    IN  (IF AnyIn(pos, text) THEN 1 ELSE 0) - (IF AnyIn(neg, text) THEN 1 ELSE 0)

\* for s in sector_impact(n): if s in heat: heat[s] += sentiment
RECURSIVE AddToSectors(_, _, _)
AddToSectors(heat, sectors, sentiment) ==
    IF sectors = <<>> THEN heat
    ELSE LET s == Head(sectors)
             next == IF s \in DOMAIN heat
                     THEN [heat EXCEPT ![s] = heat[s] + sentiment]
                     ELSE heat
         IN  AddToSectors(next, Tail(sectors), sentiment)

\* for n in top_news: ...
RECURSIVE HeatLoop(_, _)
HeatLoop(heat, top_news) ==
    IF top_news = <<>> THEN heat
    ELSE HeatLoop(AddToSectors(heat, sector_impact(Head(top_news)), Sentiment(Head(top_news))),
                  Tail(top_news))

\* the label without its emoji
HeatLabel(v) == IF v > 0 THEN "Positive" ELSE IF v < 0 THEN "Negative" ELSE "Neutral"

sector_heat(top_news) ==
    LET heat == HeatLoop([s \in {"Banking", "Industrial", "Energy"} |-> 0], top_news)
    IN  [k \in DOMAIN heat |-> HeatLabel(heat[k])]
(***************************************************************************)
(* get_market_data and generate_market_summary.  A bar holds prices quoted *)
(* to the thousandth; the frame holds the double nearest to each price.    *)
(* The rounded values are kept as the number of hundredths they hold.      *)
(***************************************************************************)
\* the double of a price of p thousandths
Quote(p) == FloatFromRatio(p, 1000)

\* round(x, 2) of a Python float: the exact value of x to the nearest
\* hundredth, ties to even
PyRound2(x) ==
    IF x.sign = 0 THEN 0
    ELSE IF x.e >= 0 THEN x.sign * BigToInt(BigShiftLeft(BigMulSmall(x.m, 100), x.e))
    ELSE x.sign * BigToInt(BigRoundShift(BigMulSmall(x.m, 100), -x.e, FALSE))

\* round(x, 2) of a numpy.float64, which numpy works out as rint(x * 100) / 100
NumpyRound2(x) == FloatRint(FloatMulInt(x, 100))

\* (close / open - 1) * 100 of the two doubles of the latest bar
PercentChange(close, open) ==
    FloatMulInt(FloatSub(FloatDiv(close, open), FloatFromInt(1)), 100)

\* the body of get_market_data on the latest daily bar of XU100.IS (open, close)
\* and of USDTRY=X (close); iloc[-1] raises IndexError when a history has
\* no rows
MarketOf(bars) ==
    IF bars.bist_rows = 0 \/ bars.usd_rows = 0 THEN [raised |-> TRUE, value |-> <<>>]
    ELSE [raised |-> FALSE,
          value |-> [bist_close |-> PyRound2(Quote(bars.close)),
                     bist_change |-> NumpyRound2(PercentChange(Quote(bars.close),
                                                                Quote(bars.open))),
                     usdtry |-> PyRound2(Quote(bars.usdtry))]]

\* str() of a float that holds h hundredths, h >= 0: "97.0", "1.5", "1.25"
FloatText(h) ==
    IntToText(h \div 100) \o <<".">> \o
        (IF h % 10 = 0 THEN <<Digits[((h % 100) \div 10) + 1]>>
         ELSE <<Digits[((h % 100) \div 10) + 1], Digits[(h % 10) + 1]>>)

Abs(x) == IF x < 0 THEN -x ELSE x

generate_market_summary(market) ==
    LET direction == IF market.bist_change > 0 THEN DirectionUp ELSE DirectionDown
    IN  SummaryHead \o FloatText(Abs(market.bist_change)) \o <<" ">> \o direction
        \o <<" ">> \o FloatText(market.bist_close) \o SummaryMiddle
        \o FloatText(market.usdtry) \o SummaryTail

(***************************************************************************)
(* export_docx and export_pdf.                                             *)
(***************************************************************************)
DocxPath == <<OUTPUT_DIR, "newsletter.docx">>
PdfPath == <<OUTPUT_DIR, "newsletter.pdf">>
NoFile == <<>>

\* the two headings and two paragraphs of record i
DocxItem(top_news, i) ==
    << [style |-> "Heading 2",
        text |-> IntToText(i) \o <<".", " ">> \o top_news[i].title],
       [style |-> "Paragraph", text |-> top_news[i].summary],
       [style |-> "Paragraph", text |-> WhyPrefix \o why_this_matters(top_news[i])] >>

RECURSIVE DocxItems(_, _)
DocxItems(top_news, i) ==
    IF i > Len(top_news) THEN <<>>
    ELSE DocxItem(top_news, i) \o DocxItems(top_news, i + 1)

export_docx(top_news, summary) ==
    [raised |-> FALSE,
     path |-> DocxPath,
     body |-> <<[style |-> "Heading 1", text |-> HeadingPrefix \o TODAY_STR]>>
              \o DocxItems(top_news, 1)
              \o <<[style |-> "Heading 2", text |-> MarketHeading],
                   [style |-> "Paragraph", text |-> summary]>>]

\* the text of the multi_cell call of record i
PdfItem(top_news, i) ==
    IntToText(i) \o <<".", " ">> \o top_news[i].title \o <<"LF">>
    \o top_news[i].summary \o <<"LF">>
    \o WhyPrefix \o why_this_matters(top_news[i]) \o <<"LF">>

RECURSIVE PdfItems(_, _)
PdfItems(top_news, i) ==
    IF i > Len(top_news) THEN <<>>
    ELSE <<PdfItem(top_news, i)>> \o PdfItems(top_news, i + 1)

\* The characters outside latin-1 that the model's texts use.  set_font("Arial")
\* selects a core font, and FPDF encodes the text of a core font as latin-1.
NotLatin1 == {"U0131", "U015F", "U011F", "U0130", "U0307", "U015E", "U011E", "U2013"}
Latin1Text(s) == \A k \in DOMAIN s : s[k] \notin NotLatin1

export_pdf(top_news, summary) ==
    LET cells == <<HeadingPrefix \o TODAY_STR \o <<"LF", "LF">>>>
                 \o PdfItems(top_news, 1)
                 \o <<<<"LF">> \o MarketHeading \o <<"LF">> \o summary>>
    IN  IF \A k \in DOMAIN cells : Latin1Text(cells[k])
        THEN [raised |-> FALSE, path |-> PdfPath, body |-> cells]
        ELSE [raised |-> TRUE, path |-> NoFile, body |-> <<>>]

(***************************************************************************)
(* fetch_news, get_market_data and their memos.  A call reads the clock    *)
(* several times, and the clock may move on between two reads while the    *)
(* call waits for the network.                                             *)
(***************************************************************************)
\* a faulty variant: the window is compared the wrong way round
KeepsOlderThanCutoff(published, t) == published <= t - WindowHours * SecondsPerHour

\* cutoff = datetime.now() - timedelta(hours=18), the clock reading t; published >= cutoff
WithinWindow(published, t) == published >= t - WindowHours * SecondsPerHour

\* the entries of the feeds that carry no published_parsed
Undated(feeds) ==
    Cardinality({p \in UNION {{s} \X DOMAIN feeds[s] : s \in DOMAIN feeds} :
                    ~feeds[p[1]][p[2]].has_published})

\* the loop over RSS_FEEDS and over feed.entries, from entry i of feed k on.
\* reads[1] is the clock reading of the cutoff; an entry without
\* published_parsed takes the next reading, of which `used` are taken so far.
RECURSIVE FetchLoop(_, _, _, _, _)
FetchLoop(feeds, k, i, reads, used) ==
    IF k > Len(RSS_FEEDS) THEN <<>>
    ELSE IF i > Len(feeds[RSS_FEEDS[k]]) THEN FetchLoop(feeds, k + 1, 1, reads, used)
    ELSE LET entry == feeds[RSS_FEEDS[k]][i]
             published == IF entry.has_published THEN entry.published
                          ELSE reads[used + 1]
             kept == IF WithinWindow(published, reads[1])
                     THEN <<[title |-> entry.title,
                             summary |-> IF entry.has_summary THEN entry.summary ELSE <<>>,
                             source |-> RSS_FEEDS[k],
                             published |-> published,
                             score |-> NoScore]>>
                     ELSE <<>>
         IN  kept \o FetchLoop(feeds, k, i + 1, reads,
                               IF entry.has_published THEN used ELSE used + 1)

\* the body of fetch_news
FetchBody(feeds, reads) == FetchLoop(feeds, 1, 1, reads, 1)

\* an entry of the memo is served while it is younger than the ttl
CacheHit(cache, t) == cache.valid /\ t - cache.at < CacheTtl

\* the entry the memo keeps of a value: `at` is the clock when the value was
\* stored; `since`, the clock when the body began, is kept for the claims only
Stored(value, since, at) == [valid |-> TRUE, at |-> at, since |-> since, value |-> value]

\* @st.cache_data(ttl=900) def fetch_news(), called at time t.  A hit returns a
\* copy of the stored value.  A miss runs the body, which reads the clock for
\* the cutoff and for each undated entry, and stores the value at the last
\* reading.
fetch_news(cache, feeds, t, reads) ==
    IF CacheHit(cache, t)
    THEN [cache |-> cache, result |-> cache.value, hit |-> TRUE, done |-> t]
    ELSE LET value == FetchBody(feeds, reads)
         IN  [cache |-> Stored(value, reads[1], reads[Len(reads)]),
              result |-> value, hit |-> FALSE, done |-> reads[Len(reads)]]

\* @st.cache_data(ttl=900) def get_market_data(), called at time t; a body
\* that returns has its value stored at time `stored`, a body that raises
\* leaves the memo as it was
MarketMiss(cache, body, t, stored) ==
    IF body.raised
    THEN [cache |-> cache, result |-> <<>>, hit |-> FALSE, raised |-> TRUE, done |-> t]
    ELSE [cache |-> Stored(body.value, t, stored), result |-> body.value,
          hit |-> FALSE, raised |-> FALSE, done |-> stored]

get_market_data(cache, bars, t, stored) ==
    IF CacheHit(cache, t)
    THEN [cache |-> cache, result |-> cache.value, hit |-> TRUE, raised |-> FALSE,
          done |-> t]
    ELSE MarketMiss(cache, MarketOf(bars), t, stored)

(***************************************************************************)
(* Inputs of the model.                                                    *)
(***************************************************************************)
Record(title, summary, source, published) ==
    [title |-> title, summary |-> summary, source |-> source,
     published |-> published, score |-> NoScore]

\* records handed to the functions; publish times are relative to the clock 0.
\* Two records have scores that differ in the last digit of the double only:
\* 3 + (3 - 4200/3600) and 2 + (3 - 600/3600).
RecordPool ==
    { Record(TitleTCMB, SummaryEmpty, "Bigpara", 0),
      Record(TitleTCMB, SummaryKredi, "Bigpara", -SecondsPerHour),
      Record(TitlePetrol, SummaryEmpty, "ReutersTR", -(SecondsPerHour + TickSeconds)),
      Record(TitleSanayi, SummaryIhracat, "BloombergHT", -25 * SecondsPerHour),
      Record(TitleBIST, SummaryFaiz, "Bigpara", SecondsPerHour),
      Record(TitleUpper, SummaryEmpty, "Bigpara", -4 * SecondsPerHour),
      Record(TitleFed, SummaryEmpty, "ReutersTR", -(SecondsPerHour \div 2)),
      Record(TitleBorsa, SummaryEmpty, "BloombergHT", -TickSeconds),
      Record(TitleEnerji, SummaryGuclu, "BloombergHT", -SecondsPerHour) }

\* the histories of the index and of the currency pair, prices in thousandths
Bars(open, close, usdtry) ==
    [bist_rows |-> 1, usd_rows |-> 1, open |-> open, close |-> close, usdtry |-> usdtry]

BarsPool ==
    { Bars(10000000, 10000500, 42105),
      Bars(8000000, 8030000, 42050),
      Bars(10000000, 9850000, 43000),
      [Bars(10000000, 10125000, 42100) EXCEPT !.usd_rows = 0] }

SummaryPool ==
    {generate_market_summary(MarketOf(b).value) : b \in {x \in BarsPool : ~MarketOf(x).raised}}

\* what a feed can hold at time t: an entry published now, one published
\* eighteen hours before, which a cutoff read later than t leaves out, and one
\* without a publish time
EntryPool(t) ==
    { [title |-> TitleTCMB, has_summary |-> FALSE, summary |-> <<>>,
       has_published |-> p # "none",
       published |-> CASE p = "now" -> t
                       [] p = "cutoff" -> t - WindowHours * SecondsPerHour
                       [] OTHER -> 0]
      : p \in {"now", "cutoff", "none"} }

\* the feeds with entries a, b and c
FeedsOf(a, b, c) ==
    [s \in {"Bigpara", "BloombergHT", "ReutersTR"} |->
        IF s = "Bigpara" THEN a ELSE IF s = "BloombergHT" THEN b ELSE c]

\* the clock readings the model knows, and the readings of `count` successive
\* reads of the clock by a call that began at t: between two reads the clock
\* stands still or moves on by one step
Times == {k * TickSeconds : k \in 0 .. MaxTicks}
ClockReads(t, count) ==
    {r \in [1 .. count -> {x \in Times : x >= t}] :
        \A k \in 1 .. count :
            r[k] - (IF k = 1 THEN t ELSE r[k - 1]) \in {0, TickSeconds}}

\* the clock after the reads of a call that began at t
LastRead(t, reads) == IF reads = <<>> THEN t ELSE reads[Len(reads)]

NoCall == [fn |-> "none", at |-> 0, hit |-> FALSE, n |-> 0, arg |-> <<>>,
           summary |-> <<>>, result |-> <<>>]
EmptyCache == [valid |-> FALSE, at |-> 0, since |-> 0, value |-> <<>>]
BlankPage == [run |-> "none", export_button |-> FALSE, success |-> FALSE,
              error |-> FALSE, top_news |-> <<>>, summary |-> <<>>, heat |-> <<>>]
NoFiles == [docx |-> NoFile, pdf |-> NoFile]

(***************************************************************************)
(* SpecPure: one function applied to a list of records drawn from the pool, *)
(* under a clock that stands still at 0.                                   *)
(***************************************************************************)
InitPure ==
    /\ now = 0
    /\ news_cache = EmptyCache
    /\ market_cache = EmptyCache
    /\ news \in SeqUpTo(RecordPool, MaxLen)
    /\ call = NoCall
    /\ ui = BlankPage
    /\ files = NoFiles

\* select_top_news(news, n): scores and sorts the caller's list in place
ApplySelect ==
    /\ call.fn = "none"
    /\ \E n \in 0 .. (Len(news) + 1) :
        LET r == select_top_news(news, n, [k \in DOMAIN news |-> now])
        IN  /\ news' = r.articles
            /\ call' = [NoCall EXCEPT !.fn = "select_top_news", !.at = now, !.n = n,
                                      !.arg = news, !.result = r.result]
            /\ UNCHANGED <<now, news_cache, market_cache, ui, files>>

\* score_news(a) for each record of the list
ApplyScore ==
    /\ call.fn = "none"
    /\ call' = [NoCall EXCEPT !.fn = "score_news", !.at = now, !.arg = news,
                              !.result = [k \in DOMAIN news |-> score_news(news[k], now)]]
    /\ UNCHANGED <<now, news_cache, market_cache, news, ui, files>>

\* sector_impact(n) for each record of the list
ApplySectorImpact ==
    /\ call.fn = "none"
    /\ call' = [NoCall EXCEPT !.fn = "sector_impact", !.at = now, !.arg = news,
                              !.result = [k \in DOMAIN news |-> sector_impact(news[k])]]
    /\ UNCHANGED <<now, news_cache, market_cache, news, ui, files>>

\* why_this_matters(n) for each record of the list
ApplyWhy ==
    /\ call.fn = "none"
    /\ call' = [NoCall EXCEPT !.fn = "why_this_matters", !.at = now, !.arg = news,
                              !.result = [k \in DOMAIN news |-> why_this_matters(news[k])]]
    /\ UNCHANGED <<now, news_cache, market_cache, news, ui, files>>

ApplySectorHeat ==
    /\ call.fn = "none"
    /\ call' = [NoCall EXCEPT !.fn = "sector_heat", !.at = now, !.arg = news,
                              !.result = sector_heat(news)]
    /\ UNCHANGED <<now, news_cache, market_cache, news, ui, files>>

\* export_docx(news, summary): doc.save(path) replaces the file
ApplyExportDocx ==
    /\ call.fn = "none"
    /\ \E summary \in SummaryPool :
        LET r == export_docx(news, summary)
        IN  /\ call' = [NoCall EXCEPT !.fn = "export_docx", !.at = now, !.arg = news,
                                      !.summary = summary, !.result = r]
            /\ files' = [files EXCEPT !.docx = r.body]
            /\ UNCHANGED <<now, news_cache, market_cache, news, ui>>

\* export_pdf(news, summary): pdf.output(path) writes the file unless it raises
ApplyExportPdf ==
    /\ call.fn = "none"
    /\ \E summary \in SummaryPool :
        LET r == export_pdf(news, summary)
        IN  /\ call' = [NoCall EXCEPT !.fn = "export_pdf", !.at = now, !.arg = news,
                                      !.summary = summary, !.result = r]
            /\ files' = IF r.raised THEN files ELSE [files EXCEPT !.pdf = r.body]
            /\ UNCHANGED <<now, news_cache, market_cache, news, ui>>

NextPure ==
    \/ ApplySelect
    \/ ApplyScore
    \/ ApplySectorImpact
    \/ ApplyWhy
    \/ ApplySectorHeat
    \/ ApplyExportDocx
    \/ ApplyExportPdf

SpecPure == InitPure /\ [][NextPure]_vars

(***************************************************************************)
(* Spec: fetch_news and select_top_news called in any order while the      *)
(* clock advances.                                                         *)
(***************************************************************************)
Init ==
    /\ now = 0
    /\ news_cache = EmptyCache
    /\ market_cache = EmptyCache
    /\ news = <<>>
    /\ call = NoCall
    /\ ui = BlankPage
    /\ files = NoFiles

Tick ==
    /\ now < MaxTicks * TickSeconds
    /\ now' = now + TickSeconds
    /\ UNCHANGED <<news_cache, market_cache, news, call, ui, files>>

\* news = fetch_news(), the feeds holding any entries of the pool.  The call
\* begins at `now`, where the memo is looked up; the body reads the clock for
\* the cutoff, for every undated entry and when its value is stored.
CallFetchNews ==
    \E la \in 0 .. (IF CacheHit(news_cache, now) THEN 0 ELSE MaxFeed) :
    \E lb \in 0 .. (IF CacheHit(news_cache, now) THEN 0 ELSE MaxFeed - la) :
    \E lc \in 0 .. (IF CacheHit(news_cache, now) THEN 0 ELSE MaxFeed - la - lb) :
    \E a \in [1 .. la -> EntryPool(now)] :
    \E b \in [1 .. lb -> EntryPool(now)] :
    \E c \in [1 .. lc -> EntryPool(now)] :
    \E reads \in ClockReads(now, IF CacheHit(news_cache, now) THEN 0
                                 ELSE 2 + Undated(FeedsOf(a, b, c))) :
        LET feeds == FeedsOf(a, b, c)
            r == fetch_news(news_cache, feeds, now, reads)
        IN  /\ news_cache' = r.cache
            /\ news' = r.result
            /\ now' = r.done
            /\ call' = [NoCall EXCEPT !.fn = "fetch_news", !.at = now, !.hit = r.hit,
                                      !.arg = IF r.hit THEN <<>> ELSE feeds,
                                      !.result = r.result]
            /\ UNCHANGED <<market_cache, ui, files>>

\* select_top_news(news, n) on the list the caller holds; score_news reads the
\* clock once for every record
CallSelectTopNews ==
    \E n \in {1, DefaultN} :
    \E reads \in ClockReads(now, Len(news)) :
        LET r == select_top_news(news, n, reads)
        IN  /\ news' = r.articles
            /\ now' = LastRead(now, reads)
            /\ call' = [NoCall EXCEPT !.fn = "select_top_news", !.at = now, !.n = n,
                                      !.arg = news, !.result = r.result]
            /\ UNCHANGED <<news_cache, market_cache, ui, files>>

Next ==
    \/ Tick
    \/ CallFetchNews
    \/ CallSelectTopNews

Spec == Init /\ [][Next]_vars

(***************************************************************************)
(* Claims about the functions, checked under SpecPure.                     *)
(***************************************************************************)
Unscored(r) == [r EXCEPT !.score = NoScore]

\* p maps each returned position to the input position of the same record, no
\* input position twice, and records of equal score keep their input order
StableOrder(in, out, p) ==
    /\ \A k \in DOMAIN out : Unscored(out[k]) = Unscored(in[p[k]])
    /\ \A k, m \in DOMAIN out : k < m => p[k] # p[m]
    /\ \A k, m \in DOMAIN out : (k < m /\ out[k].score = out[m].score) => p[k] < p[m]

\* C1: select_top_news(records, n) returns min(n, len(records)) records, ordered
\* by score non-increasing, and returned records of equal score appear in the
\* relative order they had in the input list.
C1_SelectTopStable ==
    call.fn = "select_top_news" =>
        /\ Len(call.result) = Min(call.n, Len(call.arg))
        /\ \A k \in 1 .. (Len(call.result) - 1) :
               FloatCmp(call.result[k].score, call.result[k + 1].score) >= 0
        /\ \E p \in [DOMAIN call.result -> DOMAIN call.arg] :
               StableOrder(call.arg, call.result, p)

\* a call that cut the list and returned two different records of equal score
C1_Witness ==
    /\ call.fn = "select_top_news"
    /\ Len(call.arg) > call.n
    /\ \E k \in 1 .. (Len(call.result) - 1) :
           /\ call.result[k].score = call.result[k + 1].score
           /\ call.result[k].title # call.result[k + 1].title

\* the recency bonus that score_news added for record k
BonusOf(k) == RecencyBonus(call.at, call.arg[k].published)

\* C2: of two records scored at the same time, the one published earlier never
\* gets a larger recency bonus than the one published later, and the bonus
\* always lies between 0 and 3 points.
C2_BonusMonotone ==
    call.fn = "score_news" =>
        /\ \A k \in DOMAIN call.arg :
               /\ call.result[k] = FloatAdd(FloatFromInt(KeywordScore(call.arg[k])), BonusOf(k))
               /\ FloatCmp(BonusOf(k), FloatZero) >= 0
               /\ FloatCmp(BonusOf(k), FloatFromInt(RecencyHours)) <= 0
        /\ \A k, m \in DOMAIN call.arg :
               call.arg[k].published <= call.arg[m].published =>
                   FloatCmp(BonusOf(k), BonusOf(m)) <= 0

\* the record of the scenario: "TCMB faiz karari", no summary, Bigpara, published now
IsScenario(r, t) ==
    /\ r.title = TitleTCMB
    /\ r.summary = <<>>
    /\ r.source = "Bigpara"
    /\ r.published = t

\* C3 as stated: the scenario record scores 6 points.
C3_ScenarioScoresSix ==
    call.fn = "score_news" =>
        \A k \in DOMAIN call.arg :
            IsScenario(call.arg[k], call.at) => call.result[k] = FloatFromInt(6)

\* C3 as amended: the scenario record scores 9 points: 3 for "TCMB", 3 for
\* "faiz", 3 of recency bonus and nothing for the source.
C3_ScenarioScoresNine ==
    call.fn = "score_news" =>
        \A k \in DOMAIN call.arg :
            IsScenario(call.arg[k], call.at) => call.result[k] = FloatFromInt(9)

C3_Witness ==
    /\ call.fn = "score_news"
    /\ \E k \in DOMAIN call.arg : IsScenario(call.arg[k], call.at)

SectorKeyGroups == {BankingKeys, IndustrialKeys, EnergyKeys}
NoSectorKeyword(text) ==
    \A g \in SectorKeyGroups : \A k \in DOMAIN g : ~Contains(text, g[k])

\* C4: sector_impact returns a non-empty collection of labels out of Banking,
\* Industrial, Energy and Broad Market; it is exactly [Broad Market] if and only
\* if the lowercased title and summary hold no sector keyword, and Broad Market
\* never comes with another label.
C4_SectorImpact ==
    call.fn = "sector_impact" =>
        \A k \in DOMAIN call.arg :
            LET out == call.result[k]
                labels == {out[m] : m \in DOMAIN out}
            IN  /\ out # <<>>
                /\ labels \subseteq {"Banking", "Industrial", "Energy", "Broad Market"}
                /\ (out = <<"Broad Market">>) <=> NoSectorKeyword(TextOf(call.arg[k]))
                /\ "Broad Market" \in labels => labels = {"Broad Market"}

\* one call tagged a record Broad Market and another record with two sectors
C4_Witness ==
    /\ call.fn = "sector_impact"
    /\ \E k, m \in DOMAIN call.arg :
           /\ call.result[k] = <<"Broad Market">>
           /\ Len(call.result[m]) = 2

HasPos(r) == \E k \in DOMAIN pos : Contains(TextOf(r), pos[k])
HasNeg(r) == \E k \in DOMAIN neg : Contains(TextOf(r), neg[k])
Tagged(r, s) == \E k \in DOMAIN sector_impact(r) : sector_impact(r)[k] = s

\* the sum of the deltas of the records tagged s: the records that count +1
\* less the records that count -1
SectorSum(list, s) ==
    Cardinality({k \in DOMAIN list : Tagged(list[k], s) /\ HasPos(list[k]) /\ ~HasNeg(list[k])})
    - Cardinality({k \in DOMAIN list : Tagged(list[k], s) /\ HasNeg(list[k]) /\ ~HasPos(list[k])})

\* C5: sector_heat labels exactly Banking, Industrial and Energy, each Positive,
\* Negative or Neutral as the sum of the deltas of the records tagged with that
\* sector is above, below or equal to zero, a record with a positive and a
\* negative keyword counting 0.
C5_SectorHeat ==
    call.fn = "sector_heat" =>
        /\ DOMAIN call.result = {"Banking", "Industrial", "Energy"}
        /\ \A s \in DOMAIN call.result :
               call.result[s] = IF SectorSum(call.arg, s) > 0 THEN "Positive"
                                ELSE IF SectorSum(call.arg, s) < 0 THEN "Negative"
                                ELSE "Neutral"

\* a record with both kinds of keyword is tagged Banking and leaves it Neutral,
\* while another sector is Negative
C5_Witness ==
    /\ call.fn = "sector_heat"
    /\ \E k \in DOMAIN call.arg :
           Tagged(call.arg[k], "Banking") /\ HasPos(call.arg[k]) /\ HasNeg(call.arg[k])
    /\ call.result["Banking"] = "Neutral"
    /\ \E s \in DOMAIN call.result : call.result[s] = "Negative"

WhyGroups == <<MonetaryKeys, EarningsKeys, GlobalKeys, CommodityKeys>>
WhySentences == <<MonetarySentence, EarningsSentence, GlobalSentence, CommoditySentence>>
MatchingGroups(title) ==
    {g \in DOMAIN WhyGroups : \E k \in DOMAIN WhyGroups[g] : Contains(title, WhyGroups[g][k])}

\* C6: why_this_matters returns the sentence of the first group, in the order
\* monetary policy, earnings, global macro, commodity, with a keyword in the
\* lowercased title, the generic sentence when there is none, and so the same
\* sentence for two records of the same title.
C6_WhyFirstGroup ==
    call.fn = "why_this_matters" =>
        /\ \A k \in DOMAIN call.arg :
               LET groups == MatchingGroups(Lower(call.arg[k].title))
               IN  call.result[k] =
                       IF groups = {} THEN GenericSentence
                       ELSE WhySentences[CHOOSE g \in groups : \A h \in groups : g <= h]
        /\ \A k, m \in DOMAIN call.arg :
               call.arg[k].title = call.arg[m].title => call.result[k] = call.result[m]

\* two records of one title and different summaries, the title matching two groups
C6_Witness ==
    /\ call.fn = "why_this_matters"
    /\ \E k, m \in DOMAIN call.arg :
           /\ call.arg[k].title = call.arg[m].title
           /\ call.arg[k].summary # call.arg[m].summary
           /\ Cardinality(MatchingGroups(Lower(call.arg[k].title))) >= 2

\* the title line, the summary and the rationale of record i, as the claim lists them
ItemTexts(list, i) ==
    <<IntToText(i) \o <<".", " ">> \o list[i].title,
      list[i].summary,
      WhyPrefix \o why_this_matters(list[i])>>

\* line j of one multi_cell text, the lines being separated by line feeds
Feeds(s) == {k \in DOMAIN s : s[k] = "LF"}
FeedAt(s, j) ==
    IF j = 0 THEN 0
    ELSE IF j > Cardinality(Feeds(s)) THEN Len(s) + 1
    ELSE CHOOSE p \in Feeds(s) : Cardinality({q \in Feeds(s) : q < p}) = j - 1
LineOf(s, j) == SubSeq(s, FeedAt(s, j - 1) + 1, FeedAt(s, j) - 1)

\* C9: export_docx and export_pdf each emit the dated heading, then title line,
\* summary and rationale of every record in list order, then the market
\* summary section, both carrying the same texts, and each returns its path.
C9_ExportsCarryItems ==
    /\ call.fn = "export_docx" =>
        LET body == call.result.body
            count == Len(call.arg)
        IN  /\ ~call.result.raised
            /\ call.result.path = DocxPath
            /\ files.docx = body
            /\ Len(body) = 3 * count + 3
            /\ body[1].text = HeadingPrefix \o TODAY_STR
            /\ \A i \in 1 .. count : \A j \in 1 .. 3 :
                   body[3 * (i - 1) + j + 1].text = ItemTexts(call.arg, i)[j]
            /\ body[3 * count + 2].text = MarketHeading
            /\ body[3 * count + 3].text = call.summary
    /\ call.fn = "export_pdf" =>
        LET body == call.result.body
            count == Len(call.arg)
        IN  /\ ~call.result.raised
            /\ call.result.path = PdfPath
            /\ files.pdf = body
            /\ Len(body) = count + 2
            /\ LineOf(body[1], 1) = HeadingPrefix \o TODAY_STR
            /\ \A i \in 1 .. count : \A j \in 1 .. 3 :
                   LineOf(body[i + 1], j) = ItemTexts(call.arg, i)[j]
            /\ LineOf(body[count + 2], 2) = MarketHeading
            /\ LineOf(body[count + 2], 3) = call.summary

(***************************************************************************)
(* Claims about fetch_news and select_top_news over time, checked under    *)
(* Spec.                                                                   *)
(***************************************************************************)
\* C7: a record has no score from its creation by fetch_news until
\* select_top_news scores it, and a later select_top_news call on the list
\* leaves every record that already has a score with that score.
C7_ScoreAssignedOnce ==
    /\ [](call.fn = "fetch_news" => \A k \in DOMAIN news : news[k].score = NoScore)
    /\ [][(call'.fn = "select_top_news" /\ call'.arg = news) =>
              \A k \in DOMAIN news :
                  news[k].score # NoScore => \E m \in DOMAIN news' : news'[m] = news[k]]_vars

WindowSeconds == WindowHours * SecondsPerHour

\* every entry the feeds of the call held without a publish time is in the
\* result, its publish time a clock reading between `from` and `to`
UndatedEntriesKept(from, to) ==
    \A s \in DOMAIN call.arg : \A i \in DOMAIN call.arg[s] :
        ~call.arg[s][i].has_published =>
            \E k \in DOMAIN call.result :
                /\ call.result[k].source = s
                /\ call.result[k].title = call.arg[s][i].title
                /\ call.result[k].published >= from
                /\ call.result[k].published <= to

\* C8 as stated: every record fetch_news returns at time t was published no
\* earlier than t - 18 h, and an entry without a publish time gets the current
\* time and is kept.
C8_WithinWindowOfCall ==
    call.fn = "fetch_news" =>
        /\ \A k \in DOMAIN call.result :
               call.result[k].published >= call.at - WindowSeconds
        /\ ~call.hit => UndatedEntriesKept(call.at, news_cache.at)

\* C8 as amended: every record fetch_news returns at time t was published no
\* earlier than 18 h before the time t0 at which the run of the body that
\* produced the list read the clock for its cutoff.  When the memo does not
\* serve the call, that run is the call itself and t0 is not before t, so the
\* publish time is no earlier than t - 18 h.  When the memo serves the call,
\* the list was stored by an earlier run, at most 900 s before t and not before
\* t0.  An entry without a publish time gets the clock reading taken when the
\* body reaches it, between t0 and the storing, and is kept.
C8_WithinWindowOfRun ==
    call.fn = "fetch_news" =>
        /\ news_cache.valid
        /\ news_cache.since <= news_cache.at
        /\ call.hit => news_cache.at <= call.at /\ call.at - news_cache.at <= CacheTtl
        /\ ~call.hit => call.at <= news_cache.since
        /\ \A k \in DOMAIN call.result :
               /\ call.result[k].published >= news_cache.since - WindowSeconds
               /\ ~call.hit => call.result[k].published >= call.at - WindowSeconds
        /\ ~call.hit => UndatedEntriesKept(news_cache.since, news_cache.at)

\* the memo served a record that is older than 18 h at the time of the call
C8_Witness ==
    /\ call.fn = "fetch_news"
    /\ call.hit
    /\ \E k \in DOMAIN call.result :
           call.result[k].published < call.at - WindowSeconds

(***************************************************************************)
(* SpecUI: the script body.  Every click re-runs the script from the top;  *)
(* st.button(label) is true only in the run that a click on it triggered.  *)
(***************************************************************************)
Button(clicked, label) == clicked = label

\* The page, the memos and the files after the run that a click on `clicked`
\* triggered at the time `now`.  reads holds the readings of the clock in the
\* order the run takes them: those of fetch_news when the memo does not serve
\* it, one for every record that select_top_news scores, the one at which the
\* memo of get_market_data is looked up and the one at which its value is
\* stored.  An exception of get_market_data ends the run: the page shows the
\* error and nothing of the dashboard.

\* the export branch: export_docx writes its file, then export_pdf; an exception
\* of export_pdf ends the run after the docx is written and before st.success,
\* and the page shows the error under the dashboard
ScriptExport(clicked, fetched, selected, market, summary, docx, pdf, export) ==
    [news_cache |-> fetched.cache,
     market_cache |-> market.cache,
     news |-> selected.articles,
     ui |-> [run |-> clicked, export_button |-> TRUE,
             success |-> export /\ ~pdf.raised, error |-> export /\ pdf.raised,
             top_news |-> selected.result, summary |-> summary,
             heat |-> sector_heat(selected.result)],
     files |-> IF export
               THEN [docx |-> docx.body,
                     pdf |-> IF pdf.raised THEN files.pdf ELSE pdf.body]
               ELSE files,
     done |-> market.done]

\* the dashboard and, under the export button, the exports
ScriptPage(clicked, fetched, selected, market, summary) ==
    ScriptExport(clicked, fetched, selected, market, summary,
                 export_docx(selected.result, summary),
                 export_pdf(selected.result, summary),
                 Button(clicked, "Generate Word & PDF"))

\* summary = generate_market_summary(market), which a run reaches only when
\* get_market_data has returned
ScriptMarket(clicked, fetched, selected, market) ==
    IF market.raised
    THEN [news_cache |-> fetched.cache,
          market_cache |-> market.cache,
          news |-> selected.articles,
          ui |-> [BlankPage EXCEPT !.run = clicked, !.error = TRUE],
          files |-> files,
          done |-> market.done]
    ELSE ScriptPage(clicked, fetched, selected, market,
                    generate_market_summary(market.result))

\* top_news = select_top_news(news); market = get_market_data()
ScriptSelect(clicked, bars, reads, taken, fetched) ==
    ScriptMarket(clicked, fetched,
                 select_top_news(fetched.result, DefaultN,
                                 SubSeq(reads, taken + 1, taken + Len(fetched.result))),
                 get_market_data(market_cache, bars,
                                 reads[taken + Len(fetched.result) + 1],
                                 reads[taken + Len(fetched.result) + 2]))

\* news = fetch_news(), which takes the first `taken` readings
ScriptFetch(clicked, feeds, bars, reads, taken) ==
    ScriptSelect(clicked, bars, reads, taken,
                 fetch_news(news_cache, feeds, now, SubSeq(reads, 1, taken)))

ScriptRun(clicked, feeds, bars, reads) ==
    IF Button(clicked, "Fetch Today's Data")
    THEN ScriptFetch(clicked, feeds, bars, reads,
                     IF CacheHit(news_cache, now) THEN 0 ELSE 2 + Undated(feeds))
    ELSE [news_cache |-> news_cache,
          market_cache |-> market_cache,
          news |-> <<>>,
          ui |-> [BlankPage EXCEPT !.run = clicked],
          files |-> files,
          done |-> now]

\* the state a run leaves
Rendered(r) ==
    /\ news_cache' = r.news_cache
    /\ market_cache' = r.market_cache
    /\ news' = r.news
    /\ ui' = r.ui
    /\ files' = r.files
    /\ now' = r.done
    /\ UNCHANGED call

Rerun(clicked, feeds, bars, reads) == Rendered(ScriptRun(clicked, feeds, bars, reads))

NoFeeds == FeedsOf(<<>>, <<>>, <<>>)

\* a click on the fetch button, which every run renders, at the time `now`:
\* the feeds, the histories and the clock readings of the run are any that the
\* run can meet
ClickFetch ==
    \E la \in 0 .. (IF CacheHit(news_cache, now) THEN 0 ELSE MaxFeed) :
    \E lb \in 0 .. (IF CacheHit(news_cache, now) THEN 0 ELSE MaxFeed - la) :
    \E lc \in 0 .. (IF CacheHit(news_cache, now) THEN 0 ELSE MaxFeed - la - lb) :
    \E a \in [1 .. la -> EntryPool(now)] :
    \E b \in [1 .. lb -> EntryPool(now)] :
    \E c \in [1 .. lc -> EntryPool(now)] :
    \E fetching \in ClockReads(now, IF CacheHit(news_cache, now) THEN 0
                                    ELSE 2 + Undated(FeedsOf(a, b, c))) :
    \E scoring \in ClockReads(LastRead(now, fetching),
                              Len(fetch_news(news_cache, FeedsOf(a, b, c), now,
                                             fetching).result)) :
    \E market \in ClockReads(LastRead(LastRead(now, fetching), scoring), 2) :
    \E bars \in (IF CacheHit(market_cache, market[1])
                 THEN {CHOOSE x \in BarsPool : TRUE} ELSE BarsPool) :
        /\ (CacheHit(market_cache, market[1]) \/ MarketOf(bars).raised)
               => market[2] = market[1]
        /\ Rerun("Fetch Today's Data", FeedsOf(a, b, c), bars,
                 fetching \o scoring \o market)

\* a click on the export button, which only the page of a fetch run shows
ClickExport ==
    /\ ui.export_button
    /\ Rerun("Generate Word & PDF", NoFeeds, CHOOSE x \in BarsPool : TRUE, <<>>)

NextUI ==
    \/ Tick
    \/ ClickFetch
    \/ ClickExport

SpecUI == Init /\ [][NextUI]_vars

\* C10: after a fetch has shown its top news, a click on the export button runs
\* export_docx and export_pdf on the top news and the market summary of that
\* fetch.
C10_ExportAfterFetch ==
    [][(ui.run = "Fetch Today's Data" /\ ui.export_button
        /\ ui'.run = "Generate Word & PDF") =>
           /\ files'.docx = export_docx(ui.top_news, ui.summary).body
           /\ export_pdf(ui.top_news, ui.summary).raised \/ ui'.success]_vars
====
